---- MODULE Spec2Model ----
(***************************************************************************)
(* Model of consumer/kafka-to-minio.py: the Kafka -> MinIO batch ingestor. *)
(*                                                                         *)
(* One ingestor process is a linear script: load configuration, validate   *)
(* it, create the store client, ensure the bucket, create the consumer,    *)
(* then loop: take one message, append it to the batch and, when the batch *)
(* has reached BATCH_SIZE, write it as one object and reset the batch.     *)
(*                                                                         *)
(* The store (MinIO), the topic (Kafka, one partition, one consumer group) *)
(* and the wall clock are the environment.  Events are identified with     *)
(* their 1-based position in the topic; every message is valid JSON, so    *)
(* the value_deserializer of line 78 never raises.                         *)
(***************************************************************************)
EXTENDS Integers, Sequences, FiniteSets, TLC

\* ---------------------------------------------------------------- bounds
MaxEvents == 3          \* length of the topic
MaxBatchSize == 3       \* largest explicit BATCH_SIZE setting tried
MaxClock == 2           \* last clock tick
TicksPerSecond == 2     \* clock ticks per second of the timestamp format
MaxRestarts == 1        \* restarts of an ingestor process

\* ------------------------------------------------------ program constants
DefaultBatchSize == 10

Procs == {1, 2}

\* The dict required_vars, in insertion order.
RequiredVars ==
    << "MINIO_BUCKET", "MINIO_ENDPOINT", "MINIO_ACCESS_KEY", "MINIO_SECRET_KEY",
       "KAFKA_TOPIC", "KAFKA_BOOTSTRAP_SERVER", "KAFKA_GROUP_ID" >>

RequiredNames == { RequiredVars[i] : i \in 1..Len(RequiredVars) }

\* Values of the BATCH_SIZE environment entry: unset, a text that is no
\* integer literal, or an integer literal.
BatchSizeSettings ==
    { [kind |-> "unset", val |-> 0], [kind |-> "text", val |-> 0] }
        \cup { [kind |-> "int", val |-> n] : n \in (0 - 1) .. MaxBatchSize }

\* Failures of a store call other than the bucket's absence or presence.
StoreErrors == {"Forbidden", "Network"}

VARIABLES
    environ,        \* required settings present in the environment
    batchSizeEnv,   \* the BATCH_SIZE entry of the environment
    started,        \* the ingestor processes that are launched
    pc,             \* pc[p]: position of process p in the script
    BATCH_SIZE,     \* BATCH_SIZE[p]: the parsed threshold
    error,          \* error[p]: the exception that ended p, if any
    s3,             \* s3[p]: the store client exists
    consumer,       \* consumer[p]: the topic consumer exists
    headResult,     \* headResult[p]: outcome of p's head_bucket call
    headCalls,      \* headCalls[p]: head_bucket calls of this run
    createCalls,    \* createCalls[p]: create_bucket calls of this run
    createResult,   \* createResult[p]: outcome of p's create_bucket call
    bucketExists,   \* the store holds the bucket
    objects,        \* the bucket's objects: one [key, body] per key
    position,       \* position[p]: events of the topic the consumer has yielded
    committed,      \* the group's committed offset
    resumeOffset,   \* resumeOffset[p]: the committed offset p's consumer found
    batch,          \* batch[p]: the in-memory batch
    clock,          \* the latest wall-clock reading, in ticks
    run,            \* run[p]: number of the current run of p
    consumed,       \* consumed[p]: events consumed in the current run
    puts            \* every put_object call so far, in order

vars == << environ, batchSizeEnv, started, pc, BATCH_SIZE, error, s3, consumer,
           headResult, headCalls, createCalls, createResult, bucketExists, objects,
           position, committed, resumeOffset, batch, clock, run, consumed, puts >>

configVars == << environ, batchSizeEnv, started >>
storeVars == << bucketExists, objects >>
loopVars == << position, committed, resumeOffset, batch, consumed, puts >>

\* ------------------------------------------------------------ pure helpers
NoError == [kind |-> "none", missing |-> << >>]

\* int(os.getenv("BATCH_SIZE", 10)): the default when unset, a ValueError
\* for a text that is no integer literal.
IntParses(setting) == setting.kind # "text"

ParseBatchSize(setting) ==
    IF setting.kind = "unset" THEN DefaultBatchSize ELSE setting.val

RECURSIVE MissingFrom(_, _)
\* [var for var, value in required_vars.items() if value is None], for the
\* items from index i on.
MissingFrom(i, env) ==
    IF i > Len(RequiredVars) THEN << >>
    ELSE IF RequiredVars[i] \in env THEN MissingFrom(i + 1, env)
    ELSE << RequiredVars[i] >> \o MissingFrom(i + 1, env)

MissingVars(env) == MissingFrom(1, env)

\* Mutant: create_bucket is called whatever head_bucket answered.
NeedsCreateAlways(outcome) == TRUE

\* Mutant: only the bucket's absence leads to create_bucket.
NeedsCreateOnlyAbsent(outcome) == outcome = "NotFound"

\* except Exception: every failure of head_bucket leads to create_bucket.
NeedsCreate(outcome) == outcome # "ok"

\* What head_bucket can answer.
HeadOutcomes(exists) ==
    (IF exists THEN {"ok"} ELSE {"NotFound"}) \cup StoreErrors

\* What create_bucket can answer.
CreateOutcomes(exists) ==
    (IF exists THEN {"AlreadyExists"} ELSE {"ok"}) \cup StoreErrors

\* ------------------------------------------------------------------- Init
InitCommon ==
    /\ environ \in SUBSET RequiredNames
    /\ batchSizeEnv \in BatchSizeSettings
    /\ pc = [p \in Procs |-> IF p \in started THEN "load" ELSE "off"]
    /\ BATCH_SIZE = [p \in Procs |-> 0]
    /\ error = [p \in Procs |-> NoError]
    /\ s3 = [p \in Procs |-> FALSE]
    /\ consumer = [p \in Procs |-> FALSE]
    /\ headResult = [p \in Procs |-> "none"]
    /\ headCalls = [p \in Procs |-> 0]
    /\ createCalls = [p \in Procs |-> 0]
    /\ createResult = [p \in Procs |-> "none"]
    /\ bucketExists \in BOOLEAN
    /\ objects = {}
    /\ position = [p \in Procs |-> 0]
    /\ committed = 0
    /\ resumeOffset = [p \in Procs |-> 0]
    /\ batch = [p \in Procs |-> << >>]
    /\ clock = 0
    /\ run = [p \in Procs |-> 0]
    /\ consumed = [p \in Procs |-> << >>]
    /\ puts = << >>

Init ==
    /\ started = {1}
    /\ InitCommon

\* ---------------------------------------------------------------- startup
\* Lines 31-38: the os.getenv reads and int(...) of BATCH_SIZE.
LoadConfig(p) ==
    /\ pc[p] = "load"
    /\ IF IntParses(batchSizeEnv)
       THEN /\ BATCH_SIZE' = [BATCH_SIZE EXCEPT ![p] = ParseBatchSize(batchSizeEnv)]
            /\ pc' = [pc EXCEPT ![p] = "validate"]
            /\ error' = error
       ELSE /\ pc' = [pc EXCEPT ![p] = "exited"]
            /\ error' = [error EXCEPT ![p] = [kind |-> "InvalidInt", missing |-> << >>]]
            /\ BATCH_SIZE' = BATCH_SIZE
    /\ UNCHANGED << configVars, storeVars, loopVars, s3, consumer, headResult,
                    headCalls, createCalls, createResult, clock, run >>

\* Lines 41-53: the aggregated check of the required settings.
Validate(p) ==
    /\ pc[p] = "validate"
    /\ IF MissingVars(environ) # << >>
       THEN /\ pc' = [pc EXCEPT ![p] = "exited"]
            /\ error' = [error EXCEPT ![p] =
                            [kind |-> "MissingVars", missing |-> MissingVars(environ)]]
       ELSE /\ pc' = [pc EXCEPT ![p] = "connect"]
            /\ error' = error
    /\ UNCHANGED << configVars, storeVars, loopVars, BATCH_SIZE, s3, consumer,
                    headResult, headCalls, createCalls, createResult, clock, run >>

\* Lines 56-61: boto3.client(...).
ConnectStore(p) ==
    /\ pc[p] = "connect"
    /\ s3' = [s3 EXCEPT ![p] = TRUE]
    /\ pc' = [pc EXCEPT ![p] = "head"]
    /\ UNCHANGED << configVars, storeVars, loopVars, BATCH_SIZE, error, consumer,
                    headResult, headCalls, createCalls, createResult, clock, run >>

\* Lines 64-67: s3.head_bucket inside try / except Exception.
HeadBucket(p) ==
    /\ pc[p] = "head"
    /\ \E outcome \in HeadOutcomes(bucketExists) :
          /\ headResult' = [headResult EXCEPT ![p] = outcome]
          /\ pc' = [pc EXCEPT ![p] =
                       IF NeedsCreate(outcome) THEN "create" ELSE "consumer"]
    /\ headCalls' = [headCalls EXCEPT ![p] = @ + 1]
    /\ UNCHANGED << configVars, storeVars, loopVars, BATCH_SIZE, error, s3,
                    consumer, createCalls, createResult, clock, run >>

\* Lines 67-69: s3.create_bucket in the except branch; its own exception is
\* not caught.
CreateBucket(p) ==
    /\ pc[p] = "create"
    /\ createCalls' = [createCalls EXCEPT ![p] = @ + 1]
    /\ \E outcome \in CreateOutcomes(bucketExists) :
          /\ createResult' = [createResult EXCEPT ![p] = outcome]
          /\ IF outcome = "ok"
             THEN /\ bucketExists' = TRUE
                  /\ pc' = [pc EXCEPT ![p] = "consumer"]
                  /\ error' = error
             ELSE /\ bucketExists' = bucketExists
                  /\ pc' = [pc EXCEPT ![p] = "exited"]
                  /\ error' = [error EXCEPT ![p] =
                                  [kind |-> outcome, missing |-> << >>]]
    /\ UNCHANGED << configVars, objects, loopVars, BATCH_SIZE, s3, consumer,
                    headResult, headCalls, clock, run >>

\* Mutant: the consumer always starts from the earliest offset.
StartPositionEarliest(offset) == 0

\* Mutant: the consumer resumes one message before the committed offset.
StartPositionRewind(offset) == IF offset > 0 THEN offset - 1 ELSE 0

\* Lines 72-83: KafkaConsumer(..., auto_offset_reset="earliest",
\* enable_auto_commit=True, group_id=...) and batch = [].  The consumer
\* resumes at the group's committed offset, the earliest offset when the
\* group has committed none.
StartPosition(offset) == offset

ConsumerSetup(p) ==
    /\ pc[p] = "consumer"
    /\ consumer' = [consumer EXCEPT ![p] = TRUE]
    /\ position' = [position EXCEPT ![p] = StartPosition(committed)]
    /\ resumeOffset' = [resumeOffset EXCEPT ![p] = committed]
    /\ batch' = [batch EXCEPT ![p] = << >>]
    /\ pc' = [pc EXCEPT ![p] = "poll"]
    /\ UNCHANGED << configVars, storeVars, committed, consumed, puts, BATCH_SIZE,
                    error, s3, headResult, headCalls, createCalls, createResult,
                    clock, run >>

\* ------------------------------------------------------------ consume loop
\* Mutant: the batch is flushed only once it exceeds the threshold.
ShouldFlushStrict(b, size) == Len(b) > size

\* Line 88: len(batch) >= BATCH_SIZE.
ShouldFlush(b, size) == Len(b) >= size

\* json.dumps(e): one line of text holding the encoded event.
Dumps(e) == [json |-> e]

\* json.loads(line), as a reader of the object decodes a line.
Loads(line) == line.json

\* Mutant: the last event of the batch is left out of the body.
JsonDataDropLast(b) == [i \in 1..(Len(b) - 1) |-> Dumps(b[i])]

\* Line 94: "\n".join([json.dumps(e) for e in batch]), as its lines.
JsonData(b) == [i \in 1..Len(b) |-> Dumps(b[i])]

\* The events of a body.
Events(body) == [i \in 1..Len(body) |-> Loads(body[i])]

\* strftime at second resolution: the second a clock tick falls in.
Second(tick) == tick \div TicksPerSecond

\* Lines 89-92: bronze/date=%Y-%m-%d/hour=%H/spotify_events_%Y-%m-%dT%H-%M-%S.json
FilePath(now) ==
    [ date  |-> Second(now) \div 86400,
      hour  |-> (Second(now) \div 3600) % 24,
      stamp |-> Second(now) ]

\* Mutant: the batch is reset whether or not put_object succeeded.
BatchAfterPutAlwaysReset(ok, b) == << >>

\* Line 103 runs only when put_object returned.
BatchAfterPut(ok, b) == IF ok THEN << >> ELSE b

\* Lines 84-88: the iterator yields the next message; append; test the size.
Consume(p) ==
    /\ pc[p] = "poll"
    /\ position[p] < MaxEvents
    /\ LET event == position[p] + 1
           b == Append(batch[p], event)
       IN  /\ position' = [position EXCEPT ![p] = event]
           /\ batch' = [batch EXCEPT ![p] = b]
           /\ consumed' = [consumed EXCEPT ![p] = Append(@, event)]
           /\ pc' = [pc EXCEPT ![p] =
                        IF ShouldFlush(b, BATCH_SIZE[p]) THEN "flush" ELSE "poll"]
    /\ UNCHANGED << configVars, storeVars, committed, resumeOffset, puts,
                    BATCH_SIZE, error, s3, consumer, headResult, headCalls,
                    createCalls, createResult, clock, run >>

\* Lines 89-103: build the key from utcnow(), put the object, reset the batch.
\* utcnow() reads a clock that never moves backwards: any tick from the latest
\* reading on.  put_object either stores the object or raises; the exception
\* is not caught.
Flush(p) ==
    /\ pc[p] = "flush"
    /\ \E now \in clock..MaxClock : \E ok \in BOOLEAN :
          LET key  == FilePath(now)
              body == JsonData(batch[p])
          IN  /\ clock' = now
              /\ puts' = Append(puts, [ proc |-> p, run |-> run[p], key |-> key,
                                        body |-> body, ok |-> ok,
                                        trigger |-> Len(consumed[p]) ])
              /\ objects' = IF ok
                            THEN { o \in objects : o.key # key }
                                    \cup { [key |-> key, body |-> body] }
                            ELSE objects
              /\ batch' = [batch EXCEPT ![p] = BatchAfterPut(ok, @)]
              /\ pc' = [pc EXCEPT ![p] = IF ok THEN "poll" ELSE "exited"]
              /\ error' = IF ok THEN error
                          ELSE [error EXCEPT ![p] =
                                   [kind |-> "UploadError", missing |-> << >>]]
    /\ UNCHANGED << configVars, bucketExists, position, committed, resumeOffset,
                    consumed, BATCH_SIZE, s3, consumer, headResult, headCalls,
                    createCalls, createResult, run >>

\* ------------------------------------------------------------- environment
\* enable_auto_commit=True (line 76): while the loop waits in the iterator,
\* the client commits the offsets of the messages it has yielded.
AutoCommit(p) ==
    /\ pc[p] = "poll"
    /\ committed # position[p]
    /\ committed' = position[p]
    /\ UNCHANGED << configVars, storeVars, position, resumeOffset, batch, consumed,
                    puts, pc,
                    BATCH_SIZE, error, s3, consumer, headResult, headCalls,
                    createCalls, createResult, clock, run >>

Running(p) == pc[p] \notin {"off", "exited", "crashed"}

\* The process is killed: no handler runs (the script installs none).
Crash(p) ==
    /\ Running(p)
    /\ pc' = [pc EXCEPT ![p] = "crashed"]
    /\ UNCHANGED << configVars, storeVars, loopVars, BATCH_SIZE, error, s3,
                    consumer, headResult, headCalls, createCalls, createResult,
                    clock, run >>

\* The script is launched again with the same environment and group id: a
\* new process, with nothing of the memory of the one that ended.
Restart(p) ==
    /\ pc[p] \in {"exited", "crashed"}
    /\ run[p] < MaxRestarts
    /\ run' = [run EXCEPT ![p] = @ + 1]
    /\ pc' = [pc EXCEPT ![p] = "load"]
    /\ BATCH_SIZE' = [BATCH_SIZE EXCEPT ![p] = 0]
    /\ error' = [error EXCEPT ![p] = NoError]
    /\ s3' = [s3 EXCEPT ![p] = FALSE]
    /\ consumer' = [consumer EXCEPT ![p] = FALSE]
    /\ headResult' = [headResult EXCEPT ![p] = "none"]
    /\ headCalls' = [headCalls EXCEPT ![p] = 0]
    /\ createCalls' = [createCalls EXCEPT ![p] = 0]
    /\ createResult' = [createResult EXCEPT ![p] = "none"]
    /\ consumed' = [consumed EXCEPT ![p] = << >>]
    /\ position' = [position EXCEPT ![p] = 0]
    /\ resumeOffset' = [resumeOffset EXCEPT ![p] = 0]
    /\ batch' = [batch EXCEPT ![p] = << >>]
    /\ UNCHANGED << configVars, storeVars, committed, puts, clock >>

\* ---------------------------------------------------------- specifications
Next ==
    \/ \E p \in started : LoadConfig(p)
    \/ \E p \in started : Validate(p)
    \/ \E p \in started : ConnectStore(p)
    \/ \E p \in started : HeadBucket(p)
    \/ \E p \in started : CreateBucket(p)
    \/ \E p \in started : ConsumerSetup(p)
    \/ \E p \in started : Consume(p)
    \/ \E p \in started : Flush(p)
    \/ \E p \in started : AutoCommit(p)
    \/ \E p \in started : Crash(p)
    \/ \E p \in started : Restart(p)

\* One ingestor, with the topic, the store, the clock, kills and restarts.
Spec == Init /\ [][Next]_vars

InitRace ==
    /\ started = Procs
    /\ InitCommon

NextRace ==
    \/ \E p \in started : LoadConfig(p)
    \/ \E p \in started : Validate(p)
    \/ \E p \in started : ConnectStore(p)
    \/ \E p \in started : HeadBucket(p)
    \/ \E p \in started : CreateBucket(p)
    \/ \E p \in started : ConsumerSetup(p)

\* Two ingestors started concurrently against one store, up to the loop.
SpecRace == InitRace /\ [][NextRace]_vars

\* ------------------------------------------------------- reading the state
InLoop(p) == pc[p] \in {"poll", "flush"}

\* The put_object calls of p's current run, in order.
RunPuts(p) == SelectSeq(puts, LAMBDA w : w.proc = p /\ w.run = run[p])

RECURSIVE Concat(_)
\* The events of a sequence of put_object calls, in order.
Concat(ws) ==
    IF ws = << >> THEN << >> ELSE Events(Head(ws).body) \o Concat(Tail(ws))

Range(f) == { f[i] : i \in DOMAIN f }

\* The events that are lines of put_object call w.
EventSet(w) == { Loads(w.body[i]) : i \in DOMAIN w.body }

\* Event e is a line of put_object call w.
Holds(w, e) == e \in EventSet(w)

\* Some successful put_object call wrote event e.
Written(e) == \E i \in DOMAIN puts : puts[i].ok /\ Holds(puts[i], e)

\* q = floor(n / d).  No quotient is defined for d = 0, and none is compared.
IsFloorDiv(q, n, d) ==
    IF d > 0 THEN q * d <= n /\ n < (q + 1) * d
    ELSE IF d < 0 THEN q * d >= n /\ n > (q + 1) * d
    ELSE TRUE

\* The flushes of the run follow the threshold: with F flushes after N events
\* of threshold B, F = floor(N/B), flush k is triggered by event k*B and holds
\* events (k-1)*B+1 .. k*B, and the batch holds the other N mod B events,
\* which no object holds.
FlushesFollowThreshold(p) ==
    LET F == RunPuts(p)
        N == Len(consumed[p])
        B == BATCH_SIZE[p]
    IN  /\ IsFloorDiv(Len(F), N, B)
        /\ \A k \in 1..Len(F) :
              /\ F[k].trigger = k * B
              /\ Events(F[k].body) = SubSeq(consumed[p], (k - 1) * B + 1, k * B)
        /\ batch[p] = SubSeq(consumed[p], Len(F) * B + 1, N)
        /\ \A i \in 1..Len(batch[p]) : \A k \in 1..Len(F) : ~Holds(F[k], batch[p][i])

NoPutFailed(p) == \A i \in DOMAIN puts :
                     (puts[i].proc = p /\ puts[i].run = run[p]) => puts[i].ok

\* C1, as stated: for every threshold B and every N consumed events, with no
\* store write failing, exactly floor(N/B) flushes have occurred, the k-th
\* triggered by event k*B and holding events (k-1)*B+1 .. k*B in order, and
\* the batch holds the last N mod B events, written to no object.
C1_EveryThreshold ==
    \A p \in started :
        (pc[p] = "poll" /\ NoPutFailed(p)) => FlushesFollowThreshold(p)

\* C1, amended: the same for every threshold B >= 1.
C1_PositiveThreshold ==
    \A p \in started :
        (pc[p] = "poll" /\ NoPutFailed(p) /\ BATCH_SIZE[p] >= 1)
            => FlushesFollowThreshold(p)

C1_Witness ==
    \E p \in started :
        /\ pc[p] = "poll" /\ NoPutFailed(p)
        /\ BATCH_SIZE[p] = 2 /\ Len(consumed[p]) = 3
        /\ Len(RunPuts(p)) = 1 /\ batch[p] = << 3 >>

\* C2: in the loop the batch changes only by the append of the consumed event
\* or by the reset to empty, the reset only in the step in which put_object
\* stored exactly the batch; a failed put_object leaves the batch as it is and
\* ends the process with the error; an ended process consumes and writes
\* nothing (its only step is to be launched again).
C2_BatchStep(p) ==
    LET n == Len(puts') IN
    /\ (InLoop(p) /\ batch'[p] # batch[p]) =>
          \/ /\ pc[p] = "poll"
             /\ Len(consumed'[p]) = Len(consumed[p]) + 1
             /\ batch'[p] = Append(batch[p], consumed'[p][Len(consumed'[p])])
             /\ puts' = puts
          \/ /\ pc[p] = "flush"
             /\ batch'[p] = << >>
             /\ n = Len(puts) + 1
             /\ puts'[n].ok /\ puts'[n].proc = p
             /\ Events(puts'[n].body) = batch[p]
             /\ [key |-> puts'[n].key, body |-> puts'[n].body] \in objects'
    /\ (n > Len(puts) /\ puts'[n].proc = p /\ ~puts'[n].ok) =>
          /\ batch'[p] = batch[p]
          /\ pc'[p] = "exited"
          /\ error'[p].kind = "UploadError"
          /\ objects' = objects
    /\ pc[p] = "exited" =>
          /\ consumed'[p] = consumed[p] \/ pc'[p] = "load"
          /\ Len(consumed'[p]) <= Len(consumed[p])
          /\ committed' = committed
          /\ puts' = puts
          /\ objects' = objects

C2_BatchOwnedByLoop == [][\A p \in started : C2_BatchStep(p)]_vars

C2_Witness ==
    \E p \in started :
        /\ pc[p] = "exited" /\ error[p].kind = "UploadError"
        /\ Len(RunPuts(p)) = 2 /\ RunPuts(p)[1].ok /\ ~RunPuts(p)[2].ok
        /\ Events(RunPuts(p)[2].body) = batch[p]

\* C3: the clock never moves backwards in this model; any two successful
\* put_object calls use distinct keys, and the object of every one of them is
\* still in the store.
C3_KeyUniquePerFlush ==
    /\ \A i, j \in DOMAIN puts :
          (i # j /\ puts[i].ok /\ puts[j].ok) => puts[i].key # puts[j].key
    /\ \A i \in DOMAIN puts :
          puts[i].ok => [key |-> puts[i].key, body |-> puts[i].body] \in objects

\* C4: with a required setting absent, for every BATCH_SIZE setting, no store
\* client, no consumer and no bucket call is ever made, and the error that
\* ends startup names exactly the absent settings.
C4_MissingSettingsReported ==
    \A p \in started :
        MissingVars(environ) # << >> =>
            /\ ~s3[p] /\ ~consumer[p]
            /\ headCalls[p] = 0 /\ createCalls[p] = 0
            /\ pc[p] \in {"load", "validate", "exited", "crashed"}
            /\ pc[p] = "exited" =>
                  /\ error[p].kind = "MissingVars"
                  /\ Range(error[p].missing) = RequiredNames \ environ
                  /\ Len(error[p].missing) = Cardinality(RequiredNames \ environ)

\* C5: no create_bucket call when head_bucket succeeded, exactly one when it
\* reported absence; a create call comes after the head call; the consumer
\* exists and consumes only after the check and the creation, if any.
C5_CreateCallsFollowCheck ==
    \A p \in started :
        /\ createCalls[p] <= 1 /\ headCalls[p] <= 1
        /\ headResult[p] = "ok" => createCalls[p] = 0
        /\ (headResult[p] = "NotFound" /\ pc[p] \in {"consumer", "poll", "flush", "exited"})
              => createCalls[p] = 1
        /\ pc[p] = "create" => createCalls[p] = 0
        /\ createCalls[p] = 1 => (headCalls[p] = 1 /\ headResult[p] \notin {"none", "ok"})
        /\ (consumer[p] \/ InLoop(p) \/ consumed[p] # << >>) =>
              /\ headCalls[p] = 1
              /\ headResult[p] = "ok" \/ createResult[p] = "ok"

C5_Witness ==
    \E p \in started :
        /\ headResult[p] = "NotFound" /\ createCalls[p] = 1
        /\ pc[p] = "poll" /\ consumed[p] # << >>

\* C6: when both processes saw head_bucket report absence, a process whose
\* create_bucket call failed with "already exists" is not ended by it.
C6_AlreadyExistsTolerated ==
    \A p \in started :
        (/\ \A q \in Procs : headResult[q] = "NotFound"
         /\ createResult[p] = "AlreadyExists")
            => (pc[p] # "exited" /\ error[p] = NoError)

\* Event e is lost: its offset is committed, no object ever held it, and no
\* running loop holds it in its batch.
Lost(e) ==
    /\ e <= committed
    /\ ~Written(e)
    /\ \A p \in started : InLoop(p) => e \notin Range(batch[p])

\* C7: a lost event stays lost: the group never redelivers it.
C7_LostStaysLost ==
    [][\A e \in 1..MaxEvents : Lost(e) => Lost(e)']_vars

\* C7's execution: after a restart the consumer has drained the topic, and an
\* event committed while only in the batch of the earlier run is in no object.
C7_Witness ==
    \E p \in started : \E e \in 1..MaxEvents :
        /\ run[p] = 1 /\ pc[p] = "poll" /\ position[p] = MaxEvents
        /\ Lost(e)
        /\ e \notin Range(consumed[p])
        /\ e <= resumeOffset[p]

\* C8: an event is written twice only across a restart, and a run writes only
\* events above the offset the group had committed when its consumer started.
C8_DuplicatesOnlyAcrossRestart ==
    /\ \A i \in DOMAIN puts : \A j \in (i + 1)..Len(puts) :
          (puts[i].ok /\ puts[j].ok /\ EventSet(puts[i]) \cap EventSet(puts[j]) # {})
              => (puts[i].proc = puts[j].proc /\ puts[i].run < puts[j].run)
    /\ \A i \in DOMAIN puts :
          LET p == puts[i].proc IN
          puts[i].run = run[p]
              => \A e \in EventSet(puts[i]) : e > resumeOffset[p]

\* C8's execution: two successful writes of different runs hold the same
\* event, and both objects are in the store.
C8_Witness ==
    \E i, j \in DOMAIN puts : \E e \in 1..MaxEvents :
        /\ i < j /\ puts[i].ok /\ puts[j].ok
        /\ puts[i].run < puts[j].run
        /\ Holds(puts[i], e) /\ Holds(puts[j], e)
        /\ puts[i].key # puts[j].key
        /\ [key |-> puts[i].key, body |-> puts[i].body] \in objects
        /\ [key |-> puts[j].key, body |-> puts[j].body] \in objects

\* C9: after any failure of head_bucket the process does not end before its
\* one create_bucket call; it reaches the consumer only when that call
\* succeeded, and ends with that call's error when it failed.
C9_HeadFailureMeansCreate ==
    \A p \in started :
        headResult[p] \notin {"none", "ok"} =>
            /\ createCalls[p] <= 1
            /\ pc[p] = "create" => (createCalls[p] = 0 /\ error[p] = NoError)
            /\ pc[p] = "exited" => createCalls[p] = 1
            /\ (pc[p] \in {"consumer", "poll", "flush"} \/ consumer[p])
                  => (createCalls[p] = 1 /\ createResult[p] = "ok")
            /\ createResult[p] \notin {"none", "ok"}
                  => (pc[p] = "exited" /\ error[p].kind = createResult[p])

C9_Witness ==
    \E p \in started :
        /\ headResult[p] \in StoreErrors
        /\ createResult[p] = "AlreadyExists"
        /\ pc[p] = "exited"

\* C10: whenever the loop waits for the next event, the bodies of the run's
\* successful writes, in order, followed by the batch, are the events
\* consumed so far; and no put_object call has an empty body.
C10_Conservation ==
    /\ \A p \in started :
          pc[p] = "poll" =>
              /\ NoPutFailed(p)
              /\ Concat(RunPuts(p)) \o batch[p] = consumed[p]
    /\ \A i \in DOMAIN puts : Len(puts[i].body) >= 1

C10_Witness ==
    \E p \in started :
        /\ pc[p] = "poll" /\ BATCH_SIZE[p] <= 0
        /\ Len(RunPuts(p)) = 2 /\ Len(consumed[p]) = 2

====
